---- MODULE Spec2Model ----
(***************************************************************************)
(* Run-time model of the TypeScript induction tutorial: the domain module  *)
(* (domain.ts) and the README snippets that execute code defined in the    *)
(* repository: #1 (strict null check), the users.reduce snippet of #2,     *)
(* #4 (return types) and #5 (type guards).                                 *)
(*                                                                         *)
(* Type annotations, `as` and `as const` are erased by the compiler, so    *)
(* the model is of the JavaScript that is left: values are tagged, objects *)
(* live on a heap and are handled by reference, one snippet runs per       *)
(* behaviour, and pc is the line of the statement about to execute.        *)
(***************************************************************************)
EXTENDS Integers, Sequences, FiniteSets, TLC

VARIABLES snippet, pc, heap, users, env, log, err, input, name, ipc, iret, warned

vars == <<snippet, pc, heap, users, env, log, err, input, name, ipc, iret, warned>>

(***************************************************************************)
(* Bounds of the enumerated inputs.                                        *)
(***************************************************************************)
MaxExtraNames == 3
MaxRoles == 4

(***************************************************************************)
(* JavaScript values.                                                      *)
(***************************************************************************)
Undef == [t |-> "undefined"]
Null == [t |-> "null"]
Str(s) == [t |-> "string", s |-> s]
Num(n) == [t |-> "number", n |-> n]
Ref(r) == [t |-> "object", r |-> r]
Arr(a) == [t |-> "array", a |-> a]
Bool(b) == [t |-> "boolean", b |-> b]

\* ToBoolean, as applied by `if (...)` and `? :`.
Truthy(v) ==
  CASE v.t = "undefined" -> FALSE
    [] v.t = "null" -> FALSE
    [] v.t = "string" -> v.s # ""
    [] v.t = "number" -> v.n # 0
    [] v.t = "boolean" -> v.b
    [] OTHER -> TRUE

\* `x == y` on the values the snippets compare (strings, null, undefined).
LooseEq(x, y) ==
  IF x.t \in {"undefined", "null"} THEN y.t \in {"undefined", "null"}
  ELSE x.t = y.t /\ x = y

\* Reading a property throws a TypeError on undefined and null.
CanRead(v) == v.t \notin {"undefined", "null"}

\* o.f on an object: undefined when the property is absent.
Get(o, f) == IF f \in DOMAIN o THEN o[f] ELSE Undef

\* v.f where v is any value; only called when CanRead(v).
Prop(h, v, f) == IF v.t = "object" THEN Get(h[v.r], f) ELSE Undef

\* `f in o`
HasProp(o, f) == f \in DOMAIN o

\* An object literal / `new`: a fresh heap cell.
Alloc(h, o) == [heap |-> Append(h, o), ref |-> Ref(Len(h) + 1)]

(***************************************************************************)
(* domain.ts                                                               *)
(***************************************************************************)
User(n, e) == [name |-> Str(n), email |-> Str(e)]

UserA == User("A", "A@A")
UserB == User("B", "B@B")

\* The heap and the exported array after domain.ts has been evaluated.
DomainHeap == <<UserA, UserB>>
DomainUsers == <<Ref(1), Ref(2)>>

(***************************************************************************)
(* Enumerated inputs.                                                      *)
(***************************************************************************)
ExtraNames == <<"C", "", "a", "A@A", "AB", "b">>
Names == {"A", "B"} \cup {ExtraNames[i] : i \in 1..MaxExtraNames}

RoleValues == <<Str("Administrator"), Str(""), Num(0), Str("user"), Null, Num(1)>>
Roles == {RoleValues[i] : i \in 1..MaxRoles}

WithRole(o, r) == [f \in DOMAIN o \cup {"role"} |-> IF f = "role" THEN r ELSE o[f]]

\* Values handed to the type guard: User-shaped objects with or without role.
Candidates == {UserA, UserB} \cup {WithRole(o, r) : o \in {UserA, UserB}, r \in Roles}

Snippets == {"s1", "reduce", "s4", "s5"}
FirstLine(s) ==
  CASE s = "s1" -> "l53"
    [] s = "reduce" -> "l129"
    [] s = "s4" -> "l257"
    [] s = "s5" -> "l324"

VarNames == {"found", "a", "b", "c", "d", "u", "admin", "users", "n1", "n2", "n3"}

Init ==
  /\ snippet \in Snippets
  /\ pc = FirstLine(snippet)
  /\ heap = DomainHeap
  /\ users = DomainUsers
  /\ env = [v \in VarNames |-> Undef]
  /\ log = <<>>
  /\ err = "none"
  /\ input \in (IF snippet = "s5" THEN Candidates ELSE {UserA})
  /\ name \in (IF snippet = "s4" THEN Names ELSE {"A"})
  /\ ipc = "none"
  /\ iret = Undef
  /\ warned = <<>>

(***************************************************************************)
(* Array.prototype.find with the predicate (u) => u.name == n              *)
(***************************************************************************)
\* Variant of FindFrom: the predicate compares the email, not the name.
RECURSIVE FindFromByEmail(_, _, _, _)
FindFromByEmail(h, us, i, n) ==
  IF i > Len(us) THEN Undef
  ELSE IF LooseEq(Prop(h, us[i], "email"), n) THEN us[i]
  ELSE FindFromByEmail(h, us, i + 1, n)

RECURSIVE FindFrom(_, _, _, _)
FindFrom(h, us, i, n) ==
  IF i > Len(us) THEN Undef
  ELSE IF LooseEq(Prop(h, us[i], "name"), n) THEN us[i]
  ELSE FindFrom(h, us, i + 1, n)

Find(h, us, n) == FindFrom(h, us, 1, n)

(***************************************************************************)
(* #4 Return types                                                         *)
(***************************************************************************)
\* new Error(msg)
NewError(h, msg) == Alloc(h, [message |-> Str(msg)])

\* `as const` only narrows the static type; the value is the operand.
AsConst(v) == v

\* { value: user, _type: "success" }
SuccessLit(h, user) == Alloc(h, [value |-> user, _type |-> Str("success")])

\* Variant of ErrorLit: the error literal also carries a value property.
ErrorLitWithValue(h) ==
  LET e == NewError(h, "Not found.")
  IN Alloc(e.heap, [error |-> e.ref, value |-> Undef, _type |-> Str("error")])

\* { error: new Error("Not found."), _type: "error" }
ErrorLit(h) ==
  LET e == NewError(h, "Not found.")
  IN Alloc(e.heap, [error |-> e.ref, _type |-> Str("error")])

findUser(h, us, n) ==
  LET user == Find(h, us, Str(n))
  IN IF Truthy(user) THEN SuccessLit(h, user) ELSE ErrorLit(h)

strictFindUser(h, us, n) ==
  LET user == Find(h, us, Str(n))
  IN IF Truthy(user) THEN SuccessLit(h, user) ELSE ErrorLit(h)

constFindUser(h, us, n) ==
  LET user == Find(h, us, Str(n))
      s == SuccessLit(h, user)
      e == ErrorLit(h)
  IN IF Truthy(user) THEN [heap |-> s.heap, ref |-> AsConst(s.ref)]
     ELSE [heap |-> e.heap, ref |-> AsConst(e.ref)]

\* Variant of overwriteFindUser: the Error is built without its message.
overwriteFindUserNoMessage(h, us, n) ==
  LET user == Find(h, us, Str(n))
      s == SuccessLit(h, user)
      m == NewError(h, "")
      e == Alloc(m.heap, [error |-> m.ref, _type |-> Str("error")])
  IN IF Truthy(user) THEN [heap |-> s.heap, ref |-> AsConst(s.ref)]
     ELSE [heap |-> e.heap, ref |-> AsConst(e.ref)]

overwriteFindUser(h, us, n) ==
  LET user == Find(h, us, Str(n))
      s == SuccessLit(h, user)
      e == ErrorLit(h)
  IN IF Truthy(user) THEN [heap |-> s.heap, ref |-> AsConst(s.ref)]
     ELSE [heap |-> e.heap, ref |-> AsConst(e.ref)]

\* Variant of getNewUser: the result is cut down to the fields of User.
getNewUserStripped(h) ==
  Alloc(h, [name |-> Str("B"), email |-> Str("B@B")])

getNewUser(h) ==
  Alloc(h, [name |-> Str("B"), email |-> Str("B@B"),
            password |-> Str("YOU SHOULD NOT SEE IT!!!")])

\* Binds the result of a call and moves to the next statement.
Bind(v, r, next) ==
  /\ heap' = r.heap
  /\ env' = [env EXCEPT ![v] = r.ref]
  /\ pc' = next
  /\ UNCHANGED <<snippet, users, log, err, input, name, ipc, iret, warned>>

Call_findUser ==
  /\ snippet = "s4" /\ pc = "l257"
  /\ Bind("a", findUser(heap, users, name), "l258")

Call_strictFindUser ==
  /\ snippet = "s4" /\ pc = "l265"
  /\ Bind("b", strictFindUser(heap, users, name), "l266")

Call_constFindUser ==
  /\ snippet = "s4" /\ pc = "l277"
  /\ Bind("c", constFindUser(heap, users, name), "l278")

Call_overwriteFindUser ==
  /\ snippet = "s4" /\ pc = "l288"
  /\ Bind("d", overwriteFindUser(heap, users, name), "l289")

Call_getNewUser ==
  /\ snippet = "s4" /\ pc = "l314"
  /\ Bind("u", getNewUser(heap), "done")

\* The values a switch statement reads: its discriminant, then the
\* expression statements of the case that is taken.
SwitchReads(line) ==
  LET tag(v) == IF CanRead(env[v]) THEN Prop(heap, env[v], "_type") ELSE Undef
  IN CASE line = "l258" -> <<env["a"]>>
       [] line = "l266" -> <<env["b"]>>
       [] line = "l278" -> <<env["c"]>> \o (IF tag("c") = Str("error") THEN <<env["c"]>> ELSE <<>>)
       [] line = "l289" -> <<env["d"]>> \o (IF tag("d") = Str("error") THEN <<env["c"]>> ELSE <<>>)

AfterSwitch(line) ==
  CASE line = "l258" -> "l265"
    [] line = "l266" -> "l277"
    [] line = "l278" -> "l288"
    [] line = "l289" -> "l314"

Switch ==
  /\ snippet = "s4" /\ pc \in {"l258", "l266", "l278", "l289"}
  /\ LET reads == SwitchReads(pc)
     IN IF \A i \in 1..Len(reads) : CanRead(reads[i])
        THEN pc' = AfterSwitch(pc) /\ err' = err
        ELSE pc' = "threw" /\ err' = "TypeError"
  /\ UNCHANGED <<snippet, heap, users, env, log, input, name, ipc, iret, warned>>

(***************************************************************************)
(* #1 Strict null check                                                    *)
(***************************************************************************)
\* Variant of warnUser: a sanity check returns early on a missing user.
warnUserChecked(user, h, lg) ==
  IF CanRead(user)
  THEN [threw |-> FALSE,
        log |-> Append(lg, <<"warnUser", Prop(h, user, "name"), Prop(h, user, "email")>>)]
  ELSE [threw |-> FALSE, log |-> lg]

\* const { name, email } = user: destructuring undefined or null throws
\* before anything is logged.
warnUser(user, h, lg) ==
  IF CanRead(user)
  THEN [threw |-> FALSE,
        log |-> Append(lg, <<"warnUser", Prop(h, user, "name"), Prop(h, user, "email")>>)]
  ELSE [threw |-> TRUE, log |-> lg]

\* function getUser(yes = true): the default applies to a missing argument.
getUser(h, yes) ==
  LET y == IF yes = Undef THEN TRUE ELSE Truthy(yes)
  IN IF y THEN Alloc(h, User("A", "A@A")) ELSE [heap |-> h, ref |-> Null]

\* console.log(`...${v.name}`)
LogName(label, v, h, e, lg, next) ==
  IF CanRead(v)
  THEN [pc |-> next, heap |-> h, env |-> e, log |-> Append(lg, <<label, Prop(h, v, "name")>>), err |-> "none"]
  ELSE [pc |-> "threw", heap |-> h, env |-> e, log |-> lg, err |-> "TypeError"]

\* The top-level statements of snippet #1, in order.
Snippet1Exec(line, h, e, lg) ==
  CASE line = "l53" ->
         LET o == Alloc(h, User("Luciano", "luciano.lima@farfetch.com"))
             w == warnUser(o.ref, o.heap, lg)
         IN IF w.threw
            THEN [pc |-> "threw", heap |-> o.heap, env |-> e, log |-> w.log, err |-> "TypeError"]
            ELSE [pc |-> "l58", heap |-> o.heap, env |-> e, log |-> w.log, err |-> "none"]
    [] line = "l58" ->
         LET w == warnUser(Null, h, lg)
         IN IF w.threw
            THEN [pc |-> "threw", heap |-> h, env |-> e, log |-> w.log, err |-> "TypeError"]
            ELSE [pc |-> "l60", heap |-> h, env |-> e, log |-> w.log, err |-> "none"]
    [] line = "l60" ->
         LET o1 == Alloc(h, User("A", "A@A"))
             o2 == Alloc(o1.heap, User("B", "B@B"))
         IN [pc |-> "l65", heap |-> o2.heap,
             env |-> [e EXCEPT !["users"] = Arr(<<o1.ref, o2.ref>>)], log |-> lg, err |-> "none"]
    [] line = "l65" ->
         [pc |-> "l66", heap |-> h,
          env |-> [e EXCEPT !["found"] = Find(h, e["users"].a, Str("A"))], log |-> lg, err |-> "none"]
    [] line = "l66" -> LogName("Found user", e["found"], h, e, lg, "l72")
    [] line = "l72" ->
         LET g == getUser(h, Undef)
         IN [pc |-> "l73", heap |-> g.heap, env |-> [e EXCEPT !["a"] = g.ref], log |-> lg, err |-> "none"]
    [] line = "l73" -> LogName("Got user", e["a"], h, e, lg, "done")

Snippet1Step ==
  /\ snippet = "s1" /\ pc \notin {"done", "threw"}
  /\ LET r == Snippet1Exec(pc, heap, env, log)
     IN /\ pc' = r.pc
        /\ heap' = r.heap
        /\ env' = r.env
        /\ log' = r.log
        /\ err' = r.err
  /\ UNCHANGED <<snippet, users, input, name, ipc, iret, warned>>

(***************************************************************************)
(* #2 users.reduce((_users, current) => _users.concat({...current, id: 1}),*)
(*    [])                                                                  *)
(***************************************************************************)
\* Variant of SpreadId: Object.assign(current, { id: 1 }) writes into current.
SpreadIdInPlace(h, current) ==
  LET o == h[current.r]
  IN [heap |-> [h EXCEPT ![current.r] =
                  [f \in DOMAIN o \cup {"id"} |-> IF f = "id" THEN Num(1) ELSE o[f]]],
      ref |-> current]

\* { ...current, id: 1 }: a new object with current's own properties and id.
SpreadId(h, current) ==
  LET o == h[current.r]
  IN Alloc(h, [f \in DOMAIN o \cup {"id"} |-> IF f = "id" THEN Num(1) ELSE o[f]])

\* The reducer: concat returns a new array and leaves _users alone.
Reducer(h, acc, current) ==
  LET s == SpreadId(h, current)
  IN [heap |-> s.heap, acc |-> acc \o <<s.ref>>]

RECURSIVE ReduceFrom(_, _, _, _)
ReduceFrom(h, us, i, acc) ==
  IF i > Len(us) THEN [heap |-> h, ref |-> Arr(acc)]
  ELSE LET r == Reducer(h, acc, us[i])
       IN ReduceFrom(r.heap, us, i + 1, r.acc)

ReduceTarget(line) ==
  CASE line = "l129" -> "n1" [] line = "l133" -> "n2" [] line = "l137" -> "n3"

AfterReduce(line) ==
  CASE line = "l129" -> "l133" [] line = "l133" -> "l137" [] line = "l137" -> "done"

Reduce ==
  /\ snippet = "reduce" /\ pc \in {"l129", "l133", "l137"}
  /\ Bind(ReduceTarget(pc), ReduceFrom(heap, users, 1, <<>>), AfterReduce(pc))

(***************************************************************************)
(* #5 Type guards                                                          *)
(***************************************************************************)
\* `x as T` is erased: the value is the operand.
AsCast(v) == v

\* let admin: Admin = { ... }
LetAdmin(h, e, o) ==
  LET a == Alloc(h, o)
  IN [heap |-> a.heap, env |-> [e EXCEPT !["admin"] = a.ref]]

\* Variant of LetU: u is bound to a copy holding only the fields of User.
LetUSliced(h, e) ==
  LET o == h[e["admin"].r]
      c == Alloc(h, [name |-> Get(o, "name"), email |-> Get(o, "email")])
  IN [heap |-> c.heap, env |-> [e EXCEPT !["u"] = c.ref]]

\* let u: User = admin
LetU(h, e) == [heap |-> h, env |-> [e EXCEPT !["u"] = e["admin"]]]

S5_LetAdmin ==
  /\ snippet = "s5" /\ pc = "l324"
  /\ LET r == LetAdmin(heap, env, input)
     IN heap' = r.heap /\ env' = r.env
  /\ pc' = "l334"
  /\ UNCHANGED <<snippet, users, log, err, input, name, ipc, iret, warned>>

S5_LetU ==
  /\ snippet = "s5" /\ pc = "l334"
  /\ LET r == LetU(heap, env)
     IN heap' = r.heap /\ env' = r.env
  /\ pc' = "l335"
  /\ UNCHANGED <<snippet, users, log, err, input, name, ipc, iret, warned>>

\* warnAdmin is only declared; a call hands it the argument.
Call_warnAdmin ==
  /\ snippet = "s5" /\ pc \in {"l335", "l352"}
  /\ warned' = Append(warned, [line |-> pc,
                               arg |-> IF pc = "l335" THEN AsCast(env["u"]) ELSE env["u"]])
  /\ pc' = IF pc = "l335" THEN "l351" ELSE "l353"
  /\ UNCHANGED <<snippet, heap, users, env, log, err, input, name, ipc, iret>>

Call_isAdmin ==
  /\ snippet = "s5" /\ pc = "l351"
  /\ ipc = "none"
  /\ ipc' = "l338"
  /\ pc' = "l351r"
  /\ UNCHANGED <<snippet, heap, users, env, log, err, input, name, iret, warned>>

\* Variant of isAdminLine: `return false` is missing, so control falls
\* through to the structural check.
isAdminLineFallThrough(line, h, u) ==
  CASE line = "l338" ->
         [next |-> IF Truthy(Prop(h, AsCast(u), "role")) THEN "l339" ELSE "l342", ret |-> Undef]
    [] line = "l339" -> [next |-> "ret", ret |-> Bool(TRUE)]
    [] line = "l342" ->
         [next |-> IF Truthy(Prop(h, AsCast(u), "role")) THEN "l343" ELSE "l346", ret |-> Undef]
    [] line = "l343" -> [next |-> "ret", ret |-> Bool(TRUE)]
    [] line = "l346" -> [next |-> "l348", ret |-> Undef]
    [] line = "l348" -> [next |-> "ret", ret |-> Bool(HasProp(h[u.r], "role"))]

\* Variant of isAdminLine: the first check is the structural one.
isAdminLineStructural(line, h, u) ==
  CASE line = "l338" ->
         [next |-> IF HasProp(h[u.r], "role") THEN "l339" ELSE "l342", ret |-> Undef]
    [] line = "l339" -> [next |-> "ret", ret |-> Bool(TRUE)]
    [] line = "l342" ->
         [next |-> IF Truthy(Prop(h, AsCast(u), "role")) THEN "l343" ELSE "l346", ret |-> Undef]
    [] line = "l343" -> [next |-> "ret", ret |-> Bool(TRUE)]
    [] line = "l346" -> [next |-> "ret", ret |-> Bool(FALSE)]
    [] line = "l348" -> [next |-> "ret", ret |-> Bool(HasProp(h[u.r], "role"))]

\* One statement of isAdmin(u): the line executed next, or the value returned.
isAdminLine(line, h, u) ==
  CASE line = "l338" ->
         [next |-> IF Truthy(Prop(h, AsCast(u), "role")) THEN "l339" ELSE "l342", ret |-> Undef]
    [] line = "l339" -> [next |-> "ret", ret |-> Bool(TRUE)]
    [] line = "l342" ->
         [next |-> IF Truthy(Prop(h, AsCast(u), "role")) THEN "l343" ELSE "l346", ret |-> Undef]
    [] line = "l343" -> [next |-> "ret", ret |-> Bool(TRUE)]
    [] line = "l346" -> [next |-> "ret", ret |-> Bool(FALSE)]
    [] line = "l348" -> [next |-> "ret", ret |-> Bool(HasProp(h[u.r], "role"))]

isAdminStep ==
  /\ snippet = "s5" /\ ipc # "none"
  /\ LET r == isAdminLine(ipc, heap, env["u"])
     IN IF r.next = "ret"
        THEN ipc' = "none" /\ iret' = r.ret
        ELSE ipc' = r.next /\ iret' = iret
  /\ UNCHANGED <<snippet, pc, heap, users, env, log, err, input, name, warned>>

\* if (isAdmin(u)) { ... }
Guard ==
  /\ snippet = "s5" /\ pc = "l351r" /\ ipc = "none"
  /\ pc' = IF Truthy(iret) THEN "l352" ELSE "done"
  /\ UNCHANGED <<snippet, heap, users, env, log, err, input, name, ipc, iret, warned>>

\* u.email
ReadEmail ==
  /\ snippet = "s5" /\ pc = "l353"
  /\ IF CanRead(env["u"])
     THEN pc' = "done" /\ err' = err
     ELSE pc' = "threw" /\ err' = "TypeError"
  /\ UNCHANGED <<snippet, heap, users, env, log, input, name, ipc, iret, warned>>

Next ==
  \/ Snippet1Step
  \/ Reduce
  \/ S5_LetAdmin
  \/ S5_LetU
  \/ Call_warnAdmin
  \/ Call_isAdmin
  \/ isAdminStep
  \/ Guard
  \/ ReadEmail
  \/ Call_findUser
  \/ Call_strictFindUser
  \/ Call_constFindUser
  \/ Call_overwriteFindUser
  \/ Switch
  \/ Call_getNewUser

Spec == Init /\ [][Next]_vars

(***************************************************************************)
(* Properties                                                              *)
(***************************************************************************)
ResultVars == {"a", "b", "c", "d"}

\* The object a bound variable refers to.
Obj(v) == heap[env[v].r]

IsBound(v) == env[v] # Undef

\* C1: every Result returned by findUser, strictFindUser, constFindUser and
\* overwriteFindUser is tagged "success" or "error" and carries exactly the
\* variant of its tag: value and no error on success, error and no value on
\* error.
C1_OneVariant ==
  \A v \in ResultVars :
    (snippet = "s4" /\ IsBound(v)) =>
      /\ env[v].t = "object"
      /\ "_type" \in DOMAIN Obj(v)
      /\ Obj(v)["_type"] \in {Str("success"), Str("error")}
      /\ Obj(v)["_type"] = Str("success") =>
           ("value" \in DOMAIN Obj(v) /\ "error" \notin DOMAIN Obj(v))
      /\ Obj(v)["_type"] = Str("error") =>
           ("error" \in DOMAIN Obj(v) /\ "value" \notin DOMAIN Obj(v))
      /\ ~ ("value" \in DOMAIN Obj(v) /\ "error" \in DOMAIN Obj(v))

C1_Witness ==
  /\ snippet = "s4" /\ pc = "done"
  /\ \A v \in ResultVars : IsBound(v) /\ Obj(v)["_type"] = Str("error")

\* C2: in every reachable state the exported users array is the two-entry
\* sequence [{name:"A",email:"A@A"}, {name:"B",email:"B@B"}].
C2_UsersFixed ==
  /\ Len(users) = 2
  /\ users[1].t = "object" /\ users[2].t = "object"
  /\ heap[users[1].r] = [name |-> Str("A"), email |-> Str("A@A")]
  /\ heap[users[2].r] = [name |-> Str("B"), email |-> Str("B@B")]

C2_Witness ==
  /\ snippet = "reduce" /\ pc = "done"
  /\ \A v \in {"n1", "n2", "n3"} :
       /\ env[v].t = "array" /\ Len(env[v].a) = 2
       /\ \A i \in 1..2 : Prop(heap, env[v].a[i], "id") = Num(1)

\* C3: an Admin value has name, email and role, and after `let u: User =
\* admin` the value of `u as Admin` still has the same name, email and role.
IsAdminValue(o) == "role" \in DOMAIN o /\ o["role"].t = "string"

C3_AdminRoundTrip ==
  (snippet = "s5" /\ IsAdminValue(input) /\ IsBound("admin")) =>
    /\ {"name", "email", "role"} \subseteq DOMAIN Obj("admin")
    /\ \A i \in 1..Len(warned) :
         warned[i].line = "l335" =>
           /\ warned[i].arg.t = "object"
           /\ \A f \in {"name", "email", "role"} :
                Get(heap[warned[i].arg.r], f) = Get(Obj("admin"), f)
           /\ heap[warned[i].arg.r] = input

C3_Witness ==
  /\ snippet = "s5" /\ IsAdminValue(input)
  /\ Len(warned) >= 1 /\ warned[1].line = "l335"

\* C4 as stated: no snippet ends abruptly; each runs to its last statement.
C4_EverySnippetCompletes == pc # "threw"

\* C4 as amended: snippet #1 stops at warnUser(null) with a TypeError, after
\* the first warnUser call has logged its greeting and before found and a
\* are bound or read; the reduce snippet and snippet #4 never throw.
C4_Snippet1Throws ==
  /\ snippet = "s1" =>
       /\ pc \in {"l53", "l58", "threw"}
       /\ ~ IsBound("found") /\ ~ IsBound("a")
       /\ pc = "l53" => log = <<>>
       /\ pc \in {"l58", "threw"} =>
            log = << <<"warnUser", Str("Luciano"), Str("luciano.lima@farfetch.com")>> >>
       /\ pc = "threw" <=> err = "TypeError"
  /\ snippet \in {"reduce", "s4"} => (pc # "threw" /\ err = "none")

C4_Witness == snippet = "s1" /\ pc = "threw" /\ err = "TypeError" /\ Len(log) = 1

\* C6: strictFindUser(name) returns {_type:"success", value: v} with v the
\* first entry of users named name when there is one, and {_type:"error",
\* error: Error("Not found.")} otherwise; "A" and "B" succeed, every other
\* name fails.
Matches(n) == {i \in 1..Len(users) : heap[users[i].r]["name"] = Str(n)}
FirstMatch(n) == CHOOSE i \in Matches(n) : \A j \in Matches(n) : i <= j

C6_StrictFindUser ==
  (snippet = "s4" /\ IsBound("b")) =>
    /\ Matches(name) # {} =>
         /\ Obj("b") = [value |-> users[FirstMatch(name)], _type |-> Str("success")]
         /\ heap[Obj("b")["value"].r]["name"] = Str(name)
    /\ Matches(name) = {} =>
         /\ DOMAIN Obj("b") = {"error", "_type"}
         /\ Obj("b")["_type"] = Str("error")
         /\ Obj("b")["error"].t = "object"
         /\ heap[Obj("b")["error"].r] = [message |-> Str("Not found.")]
    /\ name \in {"A", "B"} <=> Obj("b")["_type"] = Str("success")

C6_Witness ==
  /\ snippet = "s4" /\ IsBound("b") /\ name = "C"
  /\ Obj("b")["_type"] = Str("error")

\* C7: control inside isAdmin never reaches the final statement
\* `return "role" in u` (line 348).
C7_StructuralCheckUnreachable == ipc # "l348"

C7_Witness == snippet = "s5" /\ ipc = "l346"

\* C8: isAdmin(u) returns true exactly when u has a role whose value is
\* truthy, and the guarded warnAdmin(u) runs only for such values.
TruthyRole(o) == "role" \in DOMAIN o /\ Truthy(o["role"])

C8_IsAdminIffTruthyRole ==
  snippet = "s5" =>
    /\ iret # Undef => iret = Bool(TruthyRole(Obj("u")))
    /\ \A i \in 1..Len(warned) :
         warned[i].line = "l352" => TruthyRole(heap[warned[i].arg.r])
    /\ pc \in {"l352", "l353"} => TruthyRole(Obj("u"))

C8_Witness ==
  /\ snippet = "s5" /\ pc = "done" /\ iret = Bool(FALSE)
  /\ "role" \in DOMAIN input /\ input["role"] = Str("")

\* C9: for the same name the four lookups return results with the same
\* _type and the same value, or errors with the same message.
SameResult(x, y) ==
  /\ DOMAIN x = DOMAIN y
  /\ Get(x, "_type") = Get(y, "_type")
  /\ "value" \in DOMAIN x => x["value"] = y["value"]
  /\ "error" \in DOMAIN x =>
       Prop(heap, x["error"], "message") = Prop(heap, y["error"], "message")

C9_LookupsEquivalent ==
  \A v \in ResultVars, w \in ResultVars :
    (snippet = "s4" /\ IsBound(v) /\ IsBound(w)) => SameResult(Obj(v), Obj(w))

C9_Witness ==
  /\ snippet = "s4" /\ \A v \in ResultVars : IsBound(v)
  /\ Obj("a")["_type"] = Str("error")
  /\ env["a"] # env["d"]

\* C10: getNewUser() returns the object u unchanged: name "B", email "B@B"
\* and the password field.
C10_PasswordKept ==
  (snippet = "s4" /\ IsBound("u")) =>
    Obj("u") = [name |-> Str("B"), email |-> Str("B@B"),
                password |-> Str("YOU SHOULD NOT SEE IT!!!")]

C10_Witness == snippet = "s4" /\ pc = "done" /\ IsBound("u")

====
